---- MODULE Spec2Model ----
(***************************************************************************)
(* A model of matcher/api.py: the API client of the matcher service.       *)
(*                                                                         *)
(* Strings that the code takes apart (the API_URL and API_KEYS settings)   *)
(* are sequences of one-character strings; strings the code only passes    *)
(* on (paths, names, log messages) are TLA+ strings.  A call is modelled   *)
(* in three steps: the call itself up to the moment the request is on the  *)
(* wire, the answer of the network, and the rest of the method.            *)
(***************************************************************************)
EXTENDS Integers, Sequences, FiniteSets, TLC

VARIABLES
    environ,    \* os.environ: the API_URL and API_KEYS settings
    api,        \* the API object: whether it was built, its _url and _key
    pc,         \* "idle" | "await" (request on the wire) | "responded"
    call,       \* the method in progress (or the last one) and its arguments
    resp,       \* the answer of the network to the request in flight
    trace,      \* the events of the call in progress (or of the last one)
    reqs,       \* the HTTP requests issued by that call, in order
    result,     \* how the last call ended: what it returned or raised
    handles     \* the number of file objects opened by _post and still open

vars == <<environ, api, pc, call, resp, trace, reqs, result, handles>>

----------------------------------------------------------------------------
(* Bounds *)

MaxKeyLen == 3      \* longest API_KEYS value
MaxItems == 2       \* longest "items" array in a response
MaxHandles == 2     \* most file objects open at once

----------------------------------------------------------------------------
(* Values *)

Chars == {"k", "j", ","}

RECURSIVE StringsUpTo(_)
StringsUpTo(n) ==
    IF n = 0 THEN {<<>>}
    ELSE LET shorter == StringsUpTo(n - 1)
         IN  shorter \cup {Append(s, c) : s \in {t \in shorter : Len(t) = n - 1}, c \in Chars}

\* os.environ.get(name): None when the variable is not set
Unset == [present |-> FALSE, val |-> <<>>]
Str(s) == [present |-> TRUE, val |-> s]

UrlValues == {Unset, Str(<<>>), Str(<<"h">>)}
KeyValues == {Unset} \cup {Str(s) : s \in StringsUpTo(MaxKeyLen)}

\* the local file system seen by open(path, "rb")
Paths == {"", "icon.png", "missing.png"}
Openable(path) == path = "icon.png"

ProviderNames == {"X"}
ProviderIds == {5}

\* JSON objects a response can hold where a provider is expected
JsonElems ==
    { [id |-> 1, name |-> "A"],
      [id |-> 2, name |-> "B"],
      [id |-> 3] }

RECURSIVE SeqsUpTo(_, _)
SeqsUpTo(S, n) ==
    IF n = 0 THEN {<<>>}
    ELSE LET shorter == SeqsUpTo(S, n - 1)
         IN  shorter \cup {Append(s, e) : s \in {t \in shorter : Len(t) = n - 1}, e \in S}

\* response.content: bytes that are no JSON, a JSON object with an "items"
\* array, or a JSON object without one
Bodies ==
    {[t |-> "raw"]}
    \cup {[t |-> "page", items |-> s] : s \in SeqsUpTo(JsonElems, MaxItems)}
    \cup {[t |-> "obj", fields |-> e] : e \in JsonElems}

Statuses == {200, 201, 404}

NoResp == [kind |-> "none"]
NoCall == [op |-> "none"]
NoResult == [kind |-> "none", what |-> "none", payload |-> <<>>]

Return(what, payload) == [kind |-> "return", what |-> what, payload |-> payload]
Raise(what, payload) == [kind |-> "raise", what |-> what, payload |-> payload]

----------------------------------------------------------------------------
(* API.__init__ *)

\* Python truthiness of os.environ.get(...): None and "" are falsy
Truthy(v) == v.present /\ v.val # <<>>

\* (v or "")
OrEmpty(v) == IF Truthy(v) THEN v.val ELSE <<>>

\* s.split(",")[0]: the text before the first comma
RECURSIVE SplitFirst(_)
SplitFirst(s) ==
    IF s = <<>> \/ Head(s) = "," THEN <<>>
    ELSE <<Head(s)>> \o SplitFirst(Tail(s))

\* the key check left out
InitNoKeyCheck(env) ==
    IF ~Truthy(env.API_URL)
    THEN [ok |-> FALSE, err |-> "Missing env variable: 'API_URL'", url |-> <<>>, key |-> <<>>]
    ELSE [ok |-> TRUE, err |-> "", url |-> env.API_URL.val,
          key |-> SplitFirst(OrEmpty(env.API_KEYS))]

\* the whole setting kept as the key
InitWholeKey(env) ==
    IF ~Truthy(env.API_URL)
    THEN [ok |-> FALSE, err |-> "Missing env variable: 'API_URL'", url |-> <<>>, key |-> <<>>]
    ELSE LET key == OrEmpty(env.API_KEYS)
         IN  IF key = <<>>
             THEN [ok |-> FALSE, err |-> "Missing or empty env variable: 'API_KEYS'",
                   url |-> <<>>, key |-> <<>>]
             ELSE [ok |-> TRUE, err |-> "", url |-> env.API_URL.val, key |-> key]

__init__(env) ==
    IF ~Truthy(env.API_URL)
    THEN [ok |-> FALSE, err |-> "Missing env variable: 'API_URL'", url |-> <<>>, key |-> <<>>]
    ELSE LET key == SplitFirst(OrEmpty(env.API_KEYS))
         IN  IF key = <<>>
             THEN [ok |-> FALSE, err |-> "Missing or empty env variable: 'API_KEYS'",
                   url |-> <<>>, key |-> <<>>]
             ELSE [ok |-> TRUE, err |-> "", url |-> env.API_URL.val, key |-> key]

Construct ==
    /\ api.state = "unbuilt"
    /\ LET r == __init__(environ)
       IN  /\ api' = [state |-> IF r.ok THEN "ready" ELSE "failed", _url |-> r.url, _key |-> r.key]
           /\ result' = IF r.ok THEN Return("API", <<>>) ELSE Raise("ConfigError", <<r.err>>)
    /\ call' = [op |-> "__init__"]
    /\ trace' = <<>>
    /\ reqs' = <<>>
    /\ UNCHANGED <<environ, pc, resp, handles>>

----------------------------------------------------------------------------
(* The transport helpers: API._get and API._post *)

GetLog == "error: GETting API failed: "
PostLog == "error: POSTting API failed: "

\* the request sent without the key
GetRequestNoKey(self, route) ==
    [method |-> "GET",
     url |-> [base |-> self._url, route |-> route],
     headers |-> [x_api_key |-> <<>>],
     files |-> <<>>,
     json |-> <<>>]

\* requests.get(f"{self._url}{route}", headers={"x-api-key": self._key})
GetRequest(self, route) ==
    [method |-> "GET",
     url |-> [base |-> self._url, route |-> route],
     headers |-> [x_api_key |-> self._key],
     files |-> <<>>,
     json |-> <<>>]

\* requests.post(f"{self._url}{route}", headers=..., files=..., json=...):
\* files and json are each None (here <<>>) or the one value passed
PostRequest(self, route, json, file_path) ==
    [method |-> "POST",
     url |-> [base |-> self._url, route |-> route],
     headers |-> [x_api_key |-> self._key],
     files |-> IF file_path # "" THEN <<file_path>> ELSE <<>>,
     json |-> IF Cardinality(DOMAIN json) # 0 THEN <<json>> ELSE <<>>]

\* a status other than 200 handed back instead of raised
GetNoRaise(r) ==
    IF r.kind = "neterror"
    THEN [raised |-> TRUE, log |-> <<>>, exc |-> Raise("NetworkError", <<>>)]
    ELSE [raised |-> FALSE, log |-> <<>>, exc |-> NoResult]

\* _get from the answer of requests.get on: a network error propagates, a
\* status other than 200 is logged and raised with response.content
_get(r) ==
    IF r.kind = "neterror"
    THEN [raised |-> TRUE, log |-> <<>>, exc |-> Raise("NetworkError", <<>>)]
    ELSE IF r.status # 200
         THEN [raised |-> TRUE, log |-> <<GetLog>>, exc |-> Raise("Exception", <<r.body>>)]
         ELSE [raised |-> FALSE, log |-> <<>>, exc |-> NoResult]

\* 200 taken for a success of a POST as well
PostAccepts200(r) ==
    IF r.kind = "neterror"
    THEN [raised |-> TRUE, log |-> <<>>, exc |-> Raise("NetworkError", <<>>)]
    ELSE IF r.status \notin {200, 201}
         THEN [raised |-> TRUE, log |-> <<PostLog>>, exc |-> Raise("Exception", <<r.body>>)]
         ELSE [raised |-> FALSE, log |-> <<>>, exc |-> NoResult]

\* _post from the answer of requests.post on
_post(r) ==
    IF r.kind = "neterror"
    THEN [raised |-> TRUE, log |-> <<>>, exc |-> Raise("NetworkError", <<>>)]
    ELSE IF r.status # 201
         THEN [raised |-> TRUE, log |-> <<PostLog>>, exc |-> Raise("Exception", <<r.body>>)]
         ELSE [raised |-> FALSE, log |-> <<>>, exc |-> NoResult]

\* the request issued a second time
GetSendTwice(op, route) ==
    /\ pc = "idle"
    /\ api.state = "ready"
    /\ call' = [op |-> op, route |-> route, json |-> <<>>, file_path |-> "", opened |-> FALSE]
    /\ reqs' = <<GetRequest(api, route), GetRequest(api, route)>>
    /\ trace' = <<"request", "request">>
    /\ pc' = "await"
    /\ resp' = NoResp
    /\ result' = NoResult
    /\ UNCHANGED <<environ, api, handles>>

\* _get up to the request: one requests.get
GetSend(op, route) ==
    /\ pc = "idle"
    /\ api.state = "ready"
    /\ call' = [op |-> op, route |-> route, json |-> <<>>, file_path |-> "", opened |-> FALSE]
    /\ reqs' = <<GetRequest(api, route)>>
    /\ trace' = <<"request">>
    /\ pc' = "await"
    /\ resp' = NoResp
    /\ result' = NoResult
    /\ UNCHANGED <<environ, api, handles>>

\* _post up to the request: the arguments of requests.post are evaluated
\* first, open(file_path, "rb") among them, then the one requests.post
PostSend(op, route, json, file_path) ==
    /\ pc = "idle"
    /\ api.state = "ready"
    /\ resp' = NoResp
    /\ IF file_path # "" /\ ~Openable(file_path)
       THEN /\ call' = [op |-> op, route |-> route, json |-> json,
                        file_path |-> file_path, opened |-> FALSE]
            /\ trace' = <<"open_failed", "raise">>
            /\ reqs' = <<>>
            /\ result' = Raise("OSError", <<file_path>>)
            /\ pc' = "idle"
            /\ UNCHANGED handles
       ELSE /\ file_path # "" => handles < MaxHandles
            /\ call' = [op |-> op, route |-> route, json |-> json,
                        file_path |-> file_path, opened |-> file_path # ""]
            /\ handles' = IF file_path # "" THEN handles + 1 ELSE handles
            /\ trace' = IF file_path # "" THEN <<"open", "request">> ELSE <<"request">>
            /\ reqs' = <<PostRequest(api, route, json, file_path)>>
            /\ result' = NoResult
            /\ pc' = "await"
    /\ UNCHANGED <<environ, api>>

\* how a call ends: the helper's log line, if any, then the return or raise
End(log, res) ==
    /\ pc = "responded"
    /\ trace' = trace \o log \o <<res.kind>>
    /\ result' = res
    /\ pc' = "idle"
    /\ UNCHANGED <<environ, api, call, resp, reqs, handles>>

----------------------------------------------------------------------------
(* The network *)

Respond ==
    /\ pc = "await"
    /\ \E s \in Statuses, b \in Bodies :
           resp' = [kind |-> "http", status |-> s, body |-> b]
    /\ trace' = Append(trace, "response")
    /\ pc' = "responded"
    /\ UNCHANGED <<environ, api, call, reqs, result, handles>>

\* requests.get / requests.post raise instead of returning a response
NetworkError ==
    /\ pc = "await"
    /\ resp' = [kind |-> "neterror"]
    /\ trace' = Append(trace, "neterror")
    /\ pc' = "responded"
    /\ UNCHANGED <<environ, api, call, reqs, result, handles>>

----------------------------------------------------------------------------
(* Decoding *)

\* Provider.schema().load(obj): the id and name of a JSON object
LoadProvider(e) ==
    IF {"id", "name"} \subseteq DOMAIN e
    THEN [ok |-> TRUE, val |-> [cls |-> "Provider", id |-> e.id, name |-> e.name]]
    ELSE [ok |-> FALSE, val |-> [cls |-> "ValidationError"]]

\* t.schema().load(items, many=True): each element in turn
RECURSIVE LoadMany(_)
LoadMany(items) ==
    IF items = <<>> THEN [ok |-> TRUE, val |-> <<>>]
    ELSE LET h == LoadProvider(Head(items))
             r == LoadMany(Tail(items))
         IN  [ok |-> h.ok /\ r.ok,
              val |-> IF h.ok /\ r.ok THEN <<h.val>> \o r.val ELSE <<>>]

\* Page(items=items)
Page(items) == Return("Page", items)

\* the first element lost
ToPageDropFirst(obj) ==
    IF obj.t # "page" THEN Raise("KeyError", <<"items">>)
    ELSE LET l == LoadMany(obj.items)
         IN  IF l.ok THEN Page(IF l.val = <<>> THEN <<>> ELSE Tail(l.val))
             ELSE Raise("ValidationError", <<>>)

_to_page(obj) ==
    IF obj.t # "page" THEN Raise("KeyError", <<"items">>)
    ELSE LET l == LoadMany(obj.items)
         IN  IF l.ok THEN Page(l.val) ELSE Raise("ValidationError", <<>>)

\* CreateProviderDto(name=provider_name).to_dict()
DtoToDict(provider_name) == [name |-> provider_name]

----------------------------------------------------------------------------
(* The methods *)

\* bool(response): requests.Response is truthy when its status is below 400
ResponseOk(r) == r.status < 400

Ping == GetSend("ping", <<>>)

PingFinish ==
    /\ call.op = "ping"
    /\ LET g == _get(resp)
       IN  End(g.log, IF g.raised THEN g.exc
                      ELSE IF ResponseOk(resp) THEN Return("True", <<>>)
                      ELSE Return("False", <<>>))

GetProviders == GetSend("get_providers", <<"external-providers">>)

GetProvidersFinish ==
    /\ call.op = "get_providers"
    /\ LET g == _get(resp)
       IN  End(g.log, IF g.raised THEN g.exc
                      ELSE IF resp.body.t = "raw" THEN Raise("JSONDecodeError", <<>>)
                      ELSE _to_page(resp.body))

PostProvider ==
    \E provider_name \in ProviderNames :
        PostSend("post_provider", <<"external-providers">>, DtoToDict(provider_name), "")

PostProviderFinish ==
    /\ call.op = "post_provider"
    /\ LET p == _post(resp)
       IN  End(p.log, IF p.raised THEN p.exc
                      ELSE IF resp.body.t = "raw" THEN Raise("JSONDecodeError", <<>>)
                      ELSE IF resp.body.t = "obj" /\ LoadProvider(resp.body.fields).ok
                           THEN Return("Provider", <<LoadProvider(resp.body.fields).val>>)
                      ELSE Raise("ValidationError", <<>>))

PostProviderIcon ==
    \E provider_id \in ProviderIds, icon_path \in Paths :
        PostSend("post_provider_icon", <<"external-providers", provider_id, "icon">>,
                 <<>>, icon_path)

PostProviderIconFinish ==
    /\ call.op = "post_provider_icon"
    /\ LET p == _post(resp)
       IN  End(p.log, IF p.raised THEN p.exc ELSE Return("None", <<>>))

\* a caller of the GET helper itself
CallGet == GetSend("_get", <<"external-providers">>)

CallGetFinish ==
    /\ call.op = "_get"
    /\ LET g == _get(resp)
       IN  End(g.log, IF g.raised THEN g.exc ELSE Return("Response", <<resp>>))

\* a caller of the POST helper itself, with any json and file_path
CallPost ==
    \E json \in {<<>>, DtoToDict("X")}, file_path \in Paths :
        PostSend("_post", <<"external-providers">>, json, file_path)

CallPostFinish ==
    /\ call.op = "_post"
    /\ LET p == _post(resp)
       IN  End(p.log, IF p.raised THEN p.exc ELSE Return("Response", <<resp>>))

\* No statement of _post closes the file object that open() returned: it is
\* closed when the runtime finalizes it, at some moment after the call that
\* opened it has let go of it, or not at all.
Finalize ==
    /\ handles > (IF pc # "idle" /\ call.opened THEN 1 ELSE 0)
    /\ handles' = handles - 1
    /\ UNCHANGED <<environ, api, pc, call, resp, trace, reqs, result>>

----------------------------------------------------------------------------

Init ==
    /\ environ \in [API_URL : UrlValues, API_KEYS : KeyValues]
    /\ api = [state |-> "unbuilt", _url |-> <<>>, _key |-> <<>>]
    /\ pc = "idle"
    /\ call = NoCall
    /\ resp = NoResp
    /\ trace = <<>>
    /\ reqs = <<>>
    /\ result = NoResult
    /\ handles = 0

Send ==
    \/ Ping
    \/ GetProviders
    \/ PostProvider
    \/ PostProviderIcon
    \/ CallGet
    \/ CallPost

Finish ==
    \/ PingFinish
    \/ GetProvidersFinish
    \/ PostProviderFinish
    \/ PostProviderIconFinish
    \/ CallGetFinish
    \/ CallPostFinish

Next ==
    \/ Construct
    \/ Send
    \/ Respond
    \/ NetworkError
    \/ Finish
    \/ Finalize

Spec == Init /\ [][Next]_vars

\* Runs of a client whose settings are in order.  The client is synchronous:
\* once the answer of the network is there, the method runs on to its end.
\* Nothing makes the network answer: the code sets no timeout.
InitConfigured ==
    /\ Init
    /\ environ.API_URL = Str(<<"h">>)
    /\ environ.API_KEYS \in {Str(<<"k">>), Str(<<"k", ",", "j">>)}

FairSpec == InitConfigured /\ [][Next]_vars /\ WF_vars(Finish)

----------------------------------------------------------------------------
(* Vocabulary of the properties *)

\* p is the text of s before its first comma (all of s when it has none)
IsFirstEntry(p, s) ==
    /\ Len(p) <= Len(s)
    /\ \A i \in 1..Len(p) : p[i] = s[i] /\ p[i] # ","
    /\ Len(p) < Len(s) => s[Len(p) + 1] = ","

Built == api.state # "unbuilt"

\* the last call was op, it has ended, and the network had answered it
Ended(op) == pc = "idle" /\ call.op = op
Answered(op) == Ended(op) /\ resp.kind = "http"

GetOps == {"ping", "get_providers", "_get"}
PostOps == {"post_provider", "post_provider_icon", "_post"}
Methods == {"ping", "get_providers", "post_provider", "post_provider_icon"}

StatusError == result.kind = "raise" /\ result.what = "Exception"

Logged == \E i \in 1..Len(trace) : trace[i] \in {GetLog, PostLog}

\* the log line is written, and the raise comes right after it
LoggedThenRaised(line) ==
    /\ Len(trace) >= 2
    /\ trace[Len(trace) - 1] = line
    /\ trace[Len(trace)] = "raise"

Count(e) == Cardinality({i \in 1..Len(trace) : trace[i] = e})

----------------------------------------------------------------------------
(* The properties *)

\* C1: construction fails, leaving no usable client, whenever API_URL is
\* absent and whenever API_KEYS is absent or the empty string; no request is
\* issued during construction, however it ends.
C1_ConstructionFailsFast ==
    /\ (Built /\ (~environ.API_URL.present
                    \/ ~environ.API_KEYS.present
                    \/ environ.API_KEYS.val = <<>>))
          => /\ api.state = "failed"
             /\ call.op = "__init__"
             /\ result.kind = "raise"
             /\ pc = "idle"
    /\ call.op = "__init__" => reqs = <<>> /\ trace = <<>>
    /\ api.state # "ready" => reqs = <<>>

C1_Witness ==
    /\ api.state = "failed"
    /\ environ.API_URL = Str(<<"h">>)
    /\ environ.API_KEYS = Str(<<>>)
    /\ result.kind = "raise"

\* C2 as stated: for every non-empty API_URL and every non-empty API_KEYS,
\* construction succeeds and the key kept and sent is the first entry.
C2_Original ==
    (Built /\ Truthy(environ.API_URL) /\ Truthy(environ.API_KEYS))
        => /\ api.state = "ready"
           /\ IsFirstEntry(api._key, environ.API_KEYS.val)

\* C2, amended: for every non-empty API_URL and every API_KEYS whose first
\* entry (the text before the first comma) is non-empty, construction
\* succeeds and the key kept, and sent with every request, is exactly that
\* first entry; an API_KEYS value that begins with a comma is refused like
\* an empty one.
C2_FirstKeyOnly ==
    (Built /\ Truthy(environ.API_URL) /\ Truthy(environ.API_KEYS))
        => IF Head(environ.API_KEYS.val) # ","
           THEN /\ api.state = "ready"
                /\ api._key # <<>>
                /\ IsFirstEntry(api._key, environ.API_KEYS.val)
                /\ \A i \in 1..Len(reqs) :
                       IsFirstEntry(reqs[i].headers.x_api_key, environ.API_KEYS.val)
           ELSE /\ api.state = "failed"
                /\ result.kind = "raise"

C2_Witness ==
    /\ api.state = "ready"
    /\ environ.API_KEYS = Str(<<"k", ",", "j">>)
    /\ api._key = <<"k">>
    /\ Len(reqs) = 1
    /\ reqs[1].headers.x_api_key = <<"k">>

\* C3: ping() returns True when GET / is answered 200; on any other status
\* it ends by raising what _get raised, and no ping() returns False.
C3_PingNeverFalse ==
    Ended("ping") =>
        /\ ~(result.kind = "return" /\ result.what = "False")
        /\ reqs[1].url.route = <<>>
        /\ resp.kind = "http" =>
              IF resp.status = 200
              THEN result = Return("True", <<>>)
              ELSE StatusError /\ result.payload = <<resp.body>>

C3_Witness ==
    /\ Answered("ping")
    /\ resp.status = 404
    /\ result.kind = "raise"

\* C4: a GET succeeds exactly when the status is 200 and a POST exactly when
\* it is 201; on every other status the call raises an error that carries
\* the response body, and the error is logged before the raise.
C4_StatusContract ==
    \A op \in GetOps \cup PostOps :
        Answered(op) =>
            LET want == IF op \in GetOps THEN 200 ELSE 201
                line == IF op \in GetOps THEN GetLog ELSE PostLog
            IN  /\ resp.status = want <=> ~StatusError
                /\ resp.status = want => ~Logged
                /\ (resp.status = want /\ op \in {"_get", "_post"})
                      => result = Return("Response", <<resp>>)
                /\ resp.status # want =>
                      /\ result.payload = <<resp.body>>
                      /\ LoggedThenRaised(line)
                      /\ Count(line) = 1

C4_Witness ==
    /\ Answered("_post")
    /\ resp.status = 200
    /\ StatusError
    /\ LoggedThenRaised(PostLog)

\* C5 as stated: post_provider_icon issues a multipart POST to
\* /external-providers/{provider_id}/icon; a file that cannot be opened
\* makes it raise with no request sent; the open precedes the request.
C5_OpenBeforeRequest ==
    call.op = "post_provider_icon" =>
        /\ \A i \in 1..Len(reqs) :
               /\ reqs[i].method = "POST"
               /\ reqs[i].url.route = <<"external-providers", 5, "icon">>
               /\ reqs[i].files # <<>>
        /\ ~Openable(call.file_path) => reqs = <<>> /\ Count("request") = 0
        /\ Count("request") > 0 => trace[1] = "open"

C7_Safety ==
    call.op \in Methods =>
        /\ Len(reqs) <= 1
        /\ Count("request") = Len(reqs)
        /\ pc # "idle" => Len(reqs) = 1
        /\ resp.kind # "none" => Len(reqs) = 1
        /\ pc = "idle" => result.kind \in {"return", "raise"}
        /\ pc = "responded" => ENABLED Finish

\* C7: a call of ping, get_providers, post_provider or post_provider_icon
\* makes at most one request, exactly one once it has reached the network,
\* and, the answer of the network being there, ends by returning or raising
\* whatever that answer is.
C7_OneRoundTrip ==
    /\ []C7_Safety
    /\ (pc = "responded") ~> (pc = "idle" /\ result.kind \in {"return", "raise"})

C7_Witness ==
    /\ Answered("get_providers")
    /\ resp.status = 404
    /\ Len(reqs) = 1
    /\ result.kind = "raise"

\* C8: get_providers() answered 200 with an "items" array of provider
\* objects returns a Page of as many Providers, the i-th with the id and
\* name of the i-th element.
HasIdAndName(e) == {"id", "name"} \subseteq DOMAIN e

C8_PageKeepsOrder ==
    (Answered("get_providers") /\ resp.status = 200 /\ resp.body.t = "page") =>
        LET items == resp.body.items
        IN  /\ (\A i \in 1..Len(items) : HasIdAndName(items[i]))
               <=> (result.kind = "return")
            /\ result.kind = "return" =>
                  /\ result.what = "Page"
                  /\ Len(result.payload) = Len(items)
                  /\ \A i \in 1..Len(items) :
                         /\ result.payload[i].cls = "Provider"
                         /\ result.payload[i].id = items[i].id
                         /\ result.payload[i].name = items[i].name

C8_Witness ==
    /\ Answered("get_providers")
    /\ resp.status = 200
    /\ resp.body = [t |-> "page", items |-> <<[id |-> 2, name |-> "B"], [id |-> 1, name |-> "A"]>>]
    /\ result.what = "Page"
    /\ Len(result.payload) = 2
    /\ result.payload[1].id = 2

\* C9 as stated: once post_provider_icon has returned or raised, no file
\* object it opened is still open: between calls none is open.
C9_NoHandleLeft ==
    pc = "idle" => handles = 0

\* C10: whatever calls are made and however they end, the client's base URL
\* and key stay what construction made them, and every request carries
\* x-api-key equal to that key.
C10_KeyOnEveryRequest ==
    /\ [](api.state = "ready" =>
            \A i \in 1..Len(reqs) :
                /\ reqs[i].headers = [x_api_key |-> api._key]
                /\ reqs[i].url.base = api._url)
    /\ [][api.state = "ready" => api' = api]_vars

C10_Witness ==
    /\ Ended("post_provider")
    /\ result.kind = "raise"
    /\ environ.API_KEYS = Str(<<"j", ",", "k">>)
    /\ api._key = <<"j">>
    /\ reqs[1].headers.x_api_key = <<"j">>

====
